---- MODULE Spec2Model ----
(***************************************************************************)
(* ProofX: the Commitment/Authorization Gateway (contract ProofXVerifier,  *)
(* src/components/navigation.tsx lines 70-312) as a state machine.  Every  *)
(* transaction is one atomic step of the ledger: a call either runs to     *)
(* completion or reverts and leaves the contract storage untouched.        *)
(***************************************************************************)
EXTENDS Integers, Sequences, FiniteSets, TLC

(***************************************************************************)
(* Bounds of the model                                                     *)
(***************************************************************************)
\* longest event log explored
MaxEvents == 2
\* largest block.timestamp explored
MaxTime == 1
\* width of the narrowed record fields (uint64 in the contract), scaled down
WordBits == 3
\* width of the circuit's range checks (CapitalAdequacy(64)), scaled down
N_BITS == 2
\* number of generateAndSubmitProof invocations of the client that are followed
MaxInvocations == 2

(***************************************************************************)
(* Addresses, roles                                                        *)
(***************************************************************************)
\* _admin of the constructor and a second address (an institution key, or
\* anybody else) that starts without any role
Addr == {"admin", "inst"}
\* the accounts role management is exercised on
Grantees == {"inst"}
\* address(0): what verifications[] is keyed by never equals it
ZeroAddr == "0x0"
\* the address ECDSA.recover yields for a signature made over another digest:
\* nobody holds its key and it is in no role
UnknownAddr == "0x?"

DEFAULT_ADMIN_ROLE == "DEFAULT_ADMIN_ROLE"
SIGNER_ROLE == "SIGNER_ROLE"
PAUSER_ROLE == "PAUSER_ROLE"
Roles == {DEFAULT_ADMIN_ROLE, SIGNER_ROLE, PAUSER_ROLE}

(***************************************************************************)
(* Proofs, commitments, signatures                                         *)
(***************************************************************************)
MkProof(a, b, c, s) == [pA |-> a, pB |-> b, pC |-> c, pubSignals |-> <<s>>]

\* two proofs the Groth16 verifier accepts (thresholds 1 and 2) and the mock
\* proof of debug_proof.ts, which it rejects
ProofA == MkProof(<<1, 2>>, <<<<3, 4>>, <<5, 6>>>>, <<7, 8>>, 1)
ProofB == MkProof(<<2, 1>>, <<<<3, 4>>, <<5, 6>>>>, <<7, 8>>, 2)
ProofBad == MkProof(<<1, 2>>, <<<<3, 4>>, <<5, 6>>>>, <<7, 8>>, 5)
Proofs == {ProofA, ProofB, ProofBad}
ZeroProof == MkProof(<<0, 0>>, <<<<0, 0>>, <<0, 0>>>>, <<0, 0>>, 0)

\* keccak256(abi.encode(_pA, _pB, _pC, _pubSignals[0])): abi.encode of
\* static types lays the nine words out in order; keccak256 is modelled as
\* injective on its input
Keccak256(words) == <<"keccak256">> \o words
AbiEncode(p) ==
    <<p.pA[1], p.pA[2],
      p.pB[1][1], p.pB[1][2], p.pB[2][1], p.pB[2][2],
      p.pC[1], p.pC[2],
      p.pubSignals[1]>>
ProofHash(p) == Keccak256(AbiEncode(p))
ZeroHash == <<>>

\* MessageHashUtils.toEthSignedMessageHash(h) =
\* keccak256("\x19Ethereum Signed Message:\n32" ++ h)
ToEthSignedMessageHash(h) == <<"keccak256", "x19 Ethereum Signed Message: 32">> \o h

\* A signature is made by a key over a digest: "eth" signs the EIP-191
\* signed-message hash of `over` (signMessage), "raw" signs `over` itself.
MalformedSig == [kind |-> "malformed", key |-> ZeroAddr, over |-> ZeroHash]
EthSig(k, p) == [kind |-> "eth", key |-> k, over |-> ProofHash(p)]
RawSig(k, p) == [kind |-> "raw", key |-> k, over |-> ProofHash(p)]
\* the (proof, signature) pairs submitted to verifyProof: each proof signed
\* by the admin key, ProofA and ProofB also by the other key, ProofA over the
\* raw commitment and with a malformed signature, ProofB also with the
\* signature of ProofA
Submissions ==
    {<<p, EthSig("admin", p)>> : p \in Proofs}
    \cup {<<ProofA, EthSig("inst", ProofA)>>,
          <<ProofB, EthSig("inst", ProofB)>>,
          <<ProofA, RawSig("admin", ProofA)>>,
          <<ProofA, MalformedSig>>,
          <<ProofB, EthSig("admin", ProofA)>>}
SignedDigest(sig) ==
    IF sig.kind = "eth" THEN ToEthSignedMessageHash(sig.over) ELSE sig.over

\* ECDSA.recover(digest, signature): reverts on a malformed signature
\* (modelled by ZeroAddr), returns the signing key when the signature was
\* made over this digest and an unrelated address otherwise
EcdsaRecover(digest, sig) ==
    IF sig.kind = "malformed" THEN ZeroAddr
    ELSE IF SignedDigest(sig) = digest THEN sig.key
    ELSE UnknownAddr

RECURSIVE Pow2(_)
Pow2(n) == IF n = 0 THEN 1 ELSE 2 * Pow2(n - 1)
\* a narrowing conversion that keeps one bit only
Uint64_OneBit(x) == x % 2
\* uint64(x): the explicit narrowing conversion keeps the low bits
Uint64(x) == x % Pow2(WordBits)

(***************************************************************************)
(* The circuit: template CapitalAdequacy(N_BITS), main = CapitalAdequacy(64) *)
(***************************************************************************)
IsPrime(n) == n > 1 /\ \A d \in 2..(n - 1) : n % d # 0
\* the scalar field of the proof system: its modulus is a prime well above
\* 2^(N_BITS+1), as assert(N_BITS < 254) demands of the 254-bit field
FieldPrime ==
    CHOOSE q \in Pow2(N_BITS + 2)..Pow2(N_BITS + 3) :
        IsPrime(q) /\ \A r \in Pow2(N_BITS + 2)..(q - 1) : ~IsPrime(r)
Field == 0..(FieldPrime - 1)
\* a signal assigned from an integer input
ToField(x) == x % FieldPrime
FAdd(x, y) == (x + y) % FieldPrime
FSub(x, y) == (x + FieldPrime - y) % FieldPrime
\* bit k of a field element
Bit(x, k) == (x \div Pow2(k)) % 2

\* Num2Bits(n): out[i] * (out[i] - 1) === 0 for each of the n bits, and the
\* sum of out[i] * 2^i === in (an equation of the field)
BitVectors(n) == [0..(n - 1) -> {0, 1}]
RECURSIVE Recompose(_, _)
Recompose(bits, n) == IF n = 0 THEN 0 ELSE Recompose(bits, n - 1) + bits[n - 1] * Pow2(n - 1)
\* the bit assignments that satisfy the constraints of Num2Bits(n) for in
Num2BitsOut(n, in) == {bits \in BitVectors(n) : Recompose(bits, n) % FieldPrime = in}
\* a decomposition that is not required to reconstruct its input
Num2Bits_NoReconstruction(n, in) == TRUE

\* Num2Bits(n) has a witness for in
Num2Bits(n, in) == Num2BitsOut(n, in) # {}
\* LessThan(n): n2b = Num2Bits(n+1); n2b.in <== in[0] + (1<<n) - in[1];
\* out <== 1 - n2b.out[n]
LessThanIn(n, in0, in1) == FSub(FAdd(in0, Pow2(n)), in1)
LessThanSat(n, in0, in1) == Num2Bits(n + 1, LessThanIn(n, in0, in1))
LessThanOut(n, in0, in1) == 1 - Bit(LessThanIn(n, in0, in1), n)
\* GreaterEqThan(n): lt.in[0] <== in[1]; lt.in[1] <== in[0] + 1
GreaterEqThanSat(n, in0, in1) == LessThanSat(n, in1, FAdd(in0, 1))
\* a comparison whose output is 1 whatever the inputs are
GreaterEqThanOut_AlwaysOne(n, in0, in1) == 1

GreaterEqThanOut(n, in0, in1) == LessThanOut(n, in1, FAdd(in0, 1))
\* GreaterThan(n): lt.in[0] <== in[1]; lt.in[1] <== in[0]
GreaterThanSat(n, in0, in1) == LessThanSat(n, in1, in0)
\* a comparator that also answers 1 for equal inputs
GreaterThanOut_NonStrict(n, in0, in1) == LessThanOut(n, in1, FAdd(in0, 1))

GreaterThanOut(n, in0, in1) == LessThanOut(n, in1, in0)

\* CapitalAdequacy(N_BITS): the constraints have a witness for these inputs
CapitalAdequacy(assets, liabilities, threshold) ==
    LET capital == FSub(assets, liabilities)
    IN /\ GreaterEqThanSat(N_BITS, assets, liabilities)
       /\ GreaterEqThanOut(N_BITS, assets, liabilities) = 1
       /\ Num2Bits(N_BITS, assets)
       /\ Num2Bits(N_BITS, liabilities)
       /\ Num2Bits(N_BITS, threshold)
       /\ GreaterThanSat(N_BITS, capital, threshold)
       /\ GreaterThanOut(N_BITS, capital, threshold) = 1

(***************************************************************************)
(* The proof service: generateRealProof                                    *)
(***************************************************************************)
\* the blinding randomness of the Groth16 prover
Rnd == {0, 1}
\* groth16 prove: curve points that depend on the randomness and are bound to
\* the public signal; nothing in them shows the private inputs
Groth16Prove(threshold, r) ==
    [pi_a |-> <<11 + r, 12, 1>>,
     pi_b |-> <<<<13, 14>>, <<15, 16>>, <<1, 0>>>>,
     pi_c |-> <<17, 18 + threshold, 1>>]
\* snarkjs.groth16.fullProve(circuitInputs, wasm, zkey): the witness
\* calculation fails unless the inputs satisfy the circuit
FullProve(input, r) ==
    IF CapitalAdequacy(ToField(input.assets), ToField(input.liabilities), ToField(input.threshold))
    THEN [ok |-> TRUE, proof |-> Groth16Prove(ToField(input.threshold), r),
          publicSignals |-> <<ToField(input.threshold)>>]
    ELSE [ok |-> FALSE, proof |-> <<>>, publicSignals |-> <<>>]

\* formattedProof that copies pi_b as it is
FormatProof_NoSwap(proof) ==
    [a |-> <<proof.pi_a[1], proof.pi_a[2]>>,
     b |-> <<<<proof.pi_b[1][1], proof.pi_b[1][2]>>, <<proof.pi_b[2][1], proof.pi_b[2][2]>>>>,
     c |-> <<proof.pi_c[1], proof.pi_c[2]>>]

\* formattedProof: a and c lose the third coordinate, the two coordinates of
\* each row of pi_b change places
FormatProof(proof) ==
    [a |-> <<proof.pi_a[1], proof.pi_a[2]>>,
     b |-> <<<<proof.pi_b[1][2], proof.pi_b[1][1]>>, <<proof.pi_b[2][2], proof.pi_b[2][1]>>>>,
     c |-> <<proof.pi_c[1], proof.pi_c[2]>>]

\* a commitment over a and the signal only
Commitment_OnlyA(a, b, c, signal) == Keccak256(<<a[1], a[2], signal>>)

\* a commitment that encodes the public signal first
Commitment_SignalFirst(a, b, c, signal) ==
    Keccak256(<<signal, a[1], a[2], b[1][1], b[1][2], b[2][1], b[2][2], c[1], c[2]>>)
\* keccak256(AbiCoder.encode(['uint256[2]','uint256[2][2]','uint256[2]','uint256'],
\*                           [a, b, c, publicSignals[0]]))
Commitment(a, b, c, signal) ==
    Keccak256(<<a[1], a[2], b[1][1], b[1][2], b[2][1], b[2][2], c[1], c[2], signal>>)

\* the pre-check with < in place of <=
PreCheck_NonStrict(input) ==
    IF input.assets < input.liabilities THEN "Assets must be >= Liabilities"
    ELSE IF input.assets - input.liabilities < input.threshold THEN "Capital adequacy check failed"
    ELSE "ok"

\* the two throws that precede fullProve, on the BigInt values of the inputs
PreCheck(input) ==
    IF input.assets < input.liabilities THEN "Assets must be >= Liabilities"
    ELSE IF input.assets - input.liabilities <= input.threshold THEN "Capital adequacy check failed"
    ELSE "ok"

\* what a run of generateRealProof leaves: the error thrown, or the proof,
\* the public signals and the commitment returned
Thrown(input, message, proverCalled) ==
    [kind |-> "result", input |-> input, error |-> message, fullProveCalled |-> proverCalled,
     proof |-> <<>>, publicSignals |-> <<>>, commitment |-> ZeroHash]
Returned(input, formatted, signals) ==
    [kind |-> "result", input |-> input, error |-> "", fullProveCalled |-> TRUE,
     proof |-> formatted, publicSignals |-> signals,
     commitment |-> Commitment(formatted.a, formatted.b, formatted.c, signals[1])]

\* BigInt(input.assets), BigInt(input.liabilities), BigInt(input.threshold):
\* a string that is no integer literal makes BigInt throw a SyntaxError;
\* input.nonNumeric names the fields that hold such a string
ParseError(input) ==
    IF input.nonNumeric # {} THEN "SyntaxError: Cannot convert to a BigInt" ELSE "ok"

\* generateRealProof(input, wasmBuffer, zkeyBuffer)
GenerateRealProofResult(input, r) ==
    IF ParseError(input) # "ok" THEN Thrown(input, ParseError(input), FALSE)
    ELSE IF PreCheck(input) # "ok" THEN Thrown(input, PreCheck(input), FALSE)
    ELSE IF ~FullProve(input, r).ok THEN Thrown(input, "SnarkJS Error", TRUE)
    ELSE Returned(input, FormatProof(FullProve(input, r).proof), FullProve(input, r).publicSignals)

\* the proof and signal of a successful run as the client submits them
SubmittedProof(run) == MkProof(run.proof.a, run.proof.b, run.proof.c, run.publicSignals[1])

\* the public signals for which the circuit has a witness
ProvableThresholds ==
    {t \in Field : \E a \in Field, l \in Field : CapitalAdequacy(a, l, t)}
\* the proofs the proof service can return
GeneratedProofs ==
    {MkProof(FormatProof(Groth16Prove(t, r)).a, FormatProof(Groth16Prove(t, r)).b,
             FormatProof(Groth16Prove(t, r)).c, t) : t \in ProvableThresholds, r \in Rnd}

\* zkVerifier.verifyProof(_pA, _pB, _pC, _pubSignals): the pairing check, a
\* fixed predicate of the proof and the public signals; it holds for the
\* proofs made by the prover for a satisfied circuit (ProofA and ProofB stand
\* for two such proofs)
ZkVerifierVerifyProof(p) == p \in {ProofA, ProofB} \cup GeneratedProofs

(***************************************************************************)
(* Contract storage                                                        *)
(***************************************************************************)
VARIABLES
    paused,              \* Pausable._paused
    roles,               \* AccessControl._roles, as account -> set of roles
    usedProofHashes,     \* mapping(bytes32 => bool), as the set mapped to true
    verifications,       \* mapping(address => VerificationRecord)
    totalVerifications,  \* uint256 counter
    events,              \* the ProofVerified events emitted so far, in order
    now,                 \* block.timestamp of the next transaction
    last,                \* the last transaction: call, arguments, outcome
    pauseSnap,           \* history: the storage when pause() last succeeded
    status,              \* ReentrancyGuard._status
    frame,               \* the submission that is waiting for the Proof Verifier
    gen                  \* the proof service: the last generateRealProof run

storage == <<usedProofHashes, verifications, totalVerifications, events>>
\* a transaction of the ledger runs to its end: between transactions the
\* guard is released and no submission is waiting
inCall == <<status, frame>>
\* everything on the ledger, as opposed to the proof service
ledger == <<paused, roles, usedProofHashes, verifications, totalVerifications,
            events, now, last, pauseSnap, status, frame>>
vars == <<paused, roles, usedProofHashes, verifications, totalVerifications,
          events, now, last, pauseSnap, status, frame, gen>>

ZeroRecord == [proofHash |-> ZeroHash, timestamp |-> 0, threshold |-> 0, verified |-> FALSE]

\* what the last transaction was and how it ended ("ok" or the error it
\* reverted with); proof and sig are the zero values for the other calls;
\* steps lists the statements a verifyProof call executed
Call(op, sender, p, sig, res) ==
    [op |-> op, sender |-> sender, proof |-> p, sig |-> sig, result |-> res, steps |-> <<>>]
NoCall == Call("constructor", "admin", ZeroProof, MalformedSig, "ok")
NoSnap == [taken |-> FALSE, usedProofHashes |-> {}, verifications |-> [a \in Addr |-> ZeroRecord],
           totalVerifications |-> 0, events |-> <<>>]

\* ReentrancyGuard: the two values of _status
NOT_ENTERED == "NOT_ENTERED"
ENTERED == "ENTERED"
\* no submission is waiting for the Proof Verifier
NoFrame == [op |-> "none", sender |-> ZeroAddr, signer |-> ZeroAddr, proof |-> ZeroProof,
            sig |-> MalformedSig, steps |-> <<>>]
\* the proof service has not run
NoRun == [kind |-> "none"]

\* constructor(_zkVerifier, _admin): the three roles go to _admin; Pausable
\* starts unpaused; every mapping and the counter start at zero
Deployed ==
    /\ paused = FALSE
    /\ roles = [a \in Addr |-> IF a = "admin" THEN Roles ELSE {}]
    /\ usedProofHashes = {}
    /\ verifications = [a \in Addr |-> ZeroRecord]
    /\ totalVerifications = 0
    /\ events = <<>>
    /\ now = 0
    /\ last = NoCall
    /\ pauseSnap = NoSnap
    /\ status = NOT_ENTERED
    /\ frame = NoFrame

Init == Deployed /\ gen = NoRun

\* hasRole that is satisfied by any role of the account
HasRole_AnyRole(roleTable, role, account) == account \in Addr /\ roleTable[account] # {}

\* hasRole that keeps honouring a Signer who has a verification record
HasRole_OnceVerified(roleTable, role, account) ==
    /\ account \in Addr
    /\ \/ role \in roleTable[account]
       \/ role = SIGNER_ROLE /\ verifications[account].verified
\* AccessControl.hasRole(role, account)
HasRole(roleTable, role, account) == account \in Addr /\ role \in roleTable[account]

(***************************************************************************)
(* verifyProof / verifyProofSimple                                         *)
(***************************************************************************)
\* the signer recovered over the raw commitment bytes
RecoveredSigner_OverRawHash(p, sig) == EcdsaRecover(ProofHash(p), sig)
\* address signer = ECDSA.recover(toEthSignedMessageHash(proofHash), _signature)
RecoveredSigner(p, sig) == EcdsaRecover(ToEthSignedMessageHash(ProofHash(p)), sig)

\* verifyProof that recovers and authorizes the signer before the replay check
VerifyProofResult_AuthBeforeReplay(isPaused, used, roleTable, p, sig) ==
    IF isPaused THEN "EnforcedPause"
    ELSE IF RecoveredSigner(p, sig) = ZeroAddr THEN "ECDSAInvalidSignature"
    ELSE IF ~HasRole(roleTable, SIGNER_ROLE, RecoveredSigner(p, sig)) THEN "UnauthorizedSigner"
    ELSE IF ProofHash(p) \in used THEN "ProofAlreadyUsed"
    ELSE IF ~ZkVerifierVerifyProof(p) THEN "InvalidProof"
    ELSE "ok"

\* verifyProof with step 2 (the replay check) left out
VerifyProofResult_NoReplayCheck(isPaused, used, roleTable, p, sig) ==
    IF isPaused THEN "EnforcedPause"
    ELSE IF RecoveredSigner(p, sig) = ZeroAddr THEN "ECDSAInvalidSignature"
    ELSE IF ~HasRole(roleTable, SIGNER_ROLE, RecoveredSigner(p, sig)) THEN "UnauthorizedSigner"
    ELSE IF ~ZkVerifierVerifyProof(p) THEN "InvalidProof"
    ELSE "ok"

\* The checks of verifyProof in the order the code makes them; "ok" when the
\* call reaches the state update, otherwise the error it reverts with.
VerifyProofResult(isPaused, used, roleTable, p, sig) ==
    IF isPaused THEN "EnforcedPause"
    ELSE IF ProofHash(p) \in used THEN "ProofAlreadyUsed"
    ELSE IF RecoveredSigner(p, sig) = ZeroAddr THEN "ECDSAInvalidSignature"
    ELSE IF ~HasRole(roleTable, SIGNER_ROLE, RecoveredSigner(p, sig)) THEN "UnauthorizedSigner"
    ELSE IF ~ZkVerifierVerifyProof(p) THEN "InvalidProof"
    ELSE "ok"

\* the modifiers and statements of verifyProof in the order of the source
VerifyProofBody ==
    <<"whenNotPaused", "nonReentrant", "keccak256", "usedProofHashes",
      "ECDSA.recover", "hasRole", "zkVerifier.verifyProof", "stateUpdate">>
\* the position of a statement in the body
StepIndex(name) == CHOOSE i \in DOMAIN VerifyProofBody : VerifyProofBody[i] = name
\* the body up to and including the statement
StepsUpTo(name) == SubSeq(VerifyProofBody, 1, StepIndex(name))

\* the statements a verifyProof call executes: all up to the one that reverts
VerifyProofSteps(isPaused, used, roleTable, p, sig) ==
    IF isPaused THEN StepsUpTo("whenNotPaused")
    ELSE IF ProofHash(p) \in used THEN StepsUpTo("usedProofHashes")
    ELSE IF RecoveredSigner(p, sig) = ZeroAddr THEN StepsUpTo("ECDSA.recover")
    ELSE IF ~HasRole(roleTable, SIGNER_ROLE, RecoveredSigner(p, sig)) THEN StepsUpTo("hasRole")
    ELSE IF ~ZkVerifierVerifyProof(p) THEN StepsUpTo("zkVerifier.verifyProof")
    ELSE StepsUpTo("stateUpdate")

\* verifyProofSimple without the replay check
VerifyProofSimpleResult_NoReplayCheck(isPaused, used, roleTable, sender, p) ==
    IF isPaused THEN "EnforcedPause"
    ELSE IF ~ZkVerifierVerifyProof(p) THEN "InvalidProof"
    ELSE "ok"
\* verifyProofSimple without the whenNotPaused modifier
VerifyProofSimpleResult_NoPauseGuard(isPaused, used, roleTable, sender, p) ==
    IF ProofHash(p) \in used THEN "ProofAlreadyUsed"
    ELSE IF ~ZkVerifierVerifyProof(p) THEN "InvalidProof"
    ELSE "ok"

\* The checks of verifyProofSimple: the role check on msg.sender is commented
\* out in the code ("HACKATHON: Allow anyone").
VerifyProofSimpleResult(isPaused, used, roleTable, sender, p) ==
    IF isPaused THEN "EnforcedPause"
    ELSE IF ProofHash(p) \in used THEN "ProofAlreadyUsed"
    ELSE IF ~ZkVerifierVerifyProof(p) THEN "InvalidProof"
    ELSE "ok"

\* VerificationRecord({proofHash, uint64(block.timestamp), uint64(_pubSignals[0]), true})
NewRecord(p, time) ==
    [proofHash |-> ProofHash(p), timestamp |-> Uint64(time),
     threshold |-> Uint64(p.pubSignals[1]), verified |-> TRUE]

\* the event with the two indexed addresses exchanged
ProofVerifiedEvent_Swapped(signer, submitter, p, time) ==
    [signer |-> submitter, submitter |-> signer, proofHash |-> ProofHash(p),
     threshold |-> p.pubSignals[1], verified |-> TRUE, timestamp |-> time]

\* emit ProofVerified(signer, msg.sender, proofHash, _pubSignals[0], true, block.timestamp)
ProofVerifiedEvent(signer, submitter, p, time) ==
    [signer |-> signer, submitter |-> submitter, proofHash |-> ProofHash(p),
     threshold |-> p.pubSignals[1], verified |-> TRUE, timestamp |-> time]

\* the commitment is never marked
MarkUsed_Never(res, p) == usedProofHashes
\* the commitment is marked before the Proof Verifier is asked, and a false
\* answer returns without reverting
MarkUsed_BeforeZkCheck(res, p) ==
    IF res \in {"ok", "InvalidProof"} THEN usedProofHashes \cup {ProofHash(p)}
    ELSE usedProofHashes

\* usedProofHashes[proofHash] = true, reached only when no check reverted
MarkUsed(res, p) ==
    IF res = "ok" THEN usedProofHashes \cup {ProofHash(p)} ELSE usedProofHashes

\* the record of a signer is written once and never overwritten
WriteRecord_FirstWins(res, signer, p) ==
    IF res = "ok" /\ ~verifications[signer].verified
    THEN [verifications EXCEPT ![signer] = NewRecord(p, now)]
    ELSE verifications
\* verifications[signer] = VerificationRecord({...})
WriteRecord(res, signer, p) ==
    IF res = "ok" THEN [verifications EXCEPT ![signer] = NewRecord(p, now)]
    ELSE verifications

\* the counter counts every submission, accepted or not
BumpTotal_OnEveryCall(res) == totalVerifications + 1
\* unchecked { ++totalVerifications; }
BumpTotal(res) == IF res = "ok" THEN totalVerifications + 1 ELSE totalVerifications

\* emit ProofVerified(...)
EmitProofVerified(res, signer, submitter, p) ==
    IF res = "ok" THEN Append(events, ProofVerifiedEvent(signer, submitter, p, now))
    ELSE events

\* the state update of both entry points (step 5 of verifyProof); the first
\* conjunct only keeps the explored event log within MaxEvents
StateUpdate(res, signer, submitter, p) ==
    /\ res = "ok" => Len(events) < MaxEvents
    /\ usedProofHashes' = MarkUsed(res, p)
    /\ verifications' = WriteRecord(res, signer, p)
    /\ totalVerifications' = BumpTotal(res)
    /\ events' = EmitProofVerified(res, signer, submitter, p)

VerifyProof(sender, p, sig) ==
    LET res == VerifyProofResult(paused, usedProofHashes, roles, p, sig)
        signer == RecoveredSigner(p, sig)
    IN /\ StateUpdate(res, signer, sender, p)
       /\ last' = [Call("verifyProof", sender, p, sig, res) EXCEPT
                     !.steps = VerifyProofSteps(paused, usedProofHashes, roles, p, sig)]
       /\ UNCHANGED <<paused, roles, now, pauseSnap, inCall, gen>>

VerifyProofSimple(sender, p) ==
    LET res == VerifyProofSimpleResult(paused, usedProofHashes, roles, sender, p)
    IN /\ StateUpdate(res, sender, sender, p)
       /\ last' = Call("verifyProofSimple", sender, p, MalformedSig, res)
       /\ UNCHANGED <<paused, roles, now, pauseSnap, inCall, gen>>

(***************************************************************************)
(* pause / unpause                                                         *)
(***************************************************************************)
\* pause() that does not require the Active state
PauseResult_NoGuard(isPaused, roleTable, sender) ==
    IF ~HasRole(roleTable, PAUSER_ROLE, sender) THEN "AccessControlUnauthorizedAccount"
    ELSE "ok"

\* pause() external onlyRole(PAUSER_ROLE) { _pause(); }   _pause is whenNotPaused
PauseResult(isPaused, roleTable, sender) ==
    IF ~HasRole(roleTable, PAUSER_ROLE, sender) THEN "AccessControlUnauthorizedAccount"
    ELSE IF isPaused THEN "EnforcedPause"
    ELSE "ok"

\* unpause() without onlyRole(PAUSER_ROLE)
UnpauseResult_NoRoleCheck(isPaused, roleTable, sender) ==
    IF ~isPaused THEN "ExpectedPause" ELSE "ok"

\* unpause() external onlyRole(PAUSER_ROLE) { _unpause(); }   _unpause is whenPaused
UnpauseResult(isPaused, roleTable, sender) ==
    IF ~HasRole(roleTable, PAUSER_ROLE, sender) THEN "AccessControlUnauthorizedAccount"
    ELSE IF ~isPaused THEN "ExpectedPause"
    ELSE "ok"

Snapshot ==
    [taken |-> TRUE, usedProofHashes |-> usedProofHashes, verifications |-> verifications,
     totalVerifications |-> totalVerifications, events |-> events]

Pause(sender) ==
    LET res == PauseResult(paused, roles, sender)
    IN /\ paused' = IF res = "ok" THEN TRUE ELSE paused
       /\ pauseSnap' = IF res = "ok" THEN Snapshot ELSE pauseSnap
       /\ last' = Call("pause", sender, ZeroProof, MalformedSig, res)
       /\ UNCHANGED <<roles, storage, now, inCall, gen>>

Unpause(sender) ==
    LET res == UnpauseResult(paused, roles, sender)
    IN /\ paused' = IF res = "ok" THEN FALSE ELSE paused
       /\ pauseSnap' = IF res = "ok" THEN NoSnap ELSE pauseSnap
       /\ last' = Call("unpause", sender, ZeroProof, MalformedSig, res)
       /\ UNCHANGED <<roles, storage, now, inCall, gen>>

(***************************************************************************)
(* AccessControl: grantRole / revokeRole / renounceRole (inherited)        *)
(***************************************************************************)
\* role management open to every caller
RoleAdminResult_NoCheck(roleTable, sender) == "ok"

\* onlyRole(getRoleAdmin(role)); every role's admin role is DEFAULT_ADMIN_ROLE
RoleAdminResult(roleTable, sender) ==
    IF ~HasRole(roleTable, DEFAULT_ADMIN_ROLE, sender) THEN "AccessControlUnauthorizedAccount"
    ELSE "ok"

GrantRole(sender, role, account) ==
    LET res == RoleAdminResult(roles, sender)
    IN /\ roles' = IF res = "ok" THEN [roles EXCEPT ![account] = @ \cup {role}] ELSE roles
       /\ last' = Call("grantRole", sender, ZeroProof, MalformedSig, res)
       /\ UNCHANGED <<paused, storage, now, pauseSnap, inCall, gen>>

\* revokeRole that also deletes the verification record of the account
RevokeRole_ClearsRecord(sender, role, account) ==
    LET res == RoleAdminResult(roles, sender)
    IN /\ roles' = IF res = "ok" THEN [roles EXCEPT ![account] = @ \ {role}] ELSE roles
       /\ verifications' = IF res = "ok" THEN [verifications EXCEPT ![account] = ZeroRecord]
                           ELSE verifications
       /\ last' = Call("revokeRole", sender, ZeroProof, MalformedSig, res)
       /\ UNCHANGED <<paused, usedProofHashes, totalVerifications, events, now, pauseSnap, inCall, gen>>
RevokeRole(sender, role, account) ==
    LET res == RoleAdminResult(roles, sender)
    IN /\ roles' = IF res = "ok" THEN [roles EXCEPT ![account] = @ \ {role}] ELSE roles
       /\ last' = Call("revokeRole", sender, ZeroProof, MalformedSig, res)
       /\ UNCHANGED <<paused, storage, now, pauseSnap, inCall, gen>>

\* renounceRole(role, callerConfirmation): callerConfirmation must be msg.sender
RenounceRoleResult(sender, confirmation) ==
    IF confirmation # sender THEN "AccessControlBadConfirmation" ELSE "ok"

RenounceRole(sender, role, confirmation) ==
    LET res == RenounceRoleResult(sender, confirmation)
    IN /\ roles' = IF res = "ok" THEN [roles EXCEPT ![confirmation] = @ \ {role}] ELSE roles
       /\ last' = Call("renounceRole", sender, ZeroProof, MalformedSig, res)
       /\ UNCHANGED <<paused, storage, now, pauseSnap, inCall, gen>>

(***************************************************************************)
(* The ledger                                                              *)
(***************************************************************************)
\* a later block: block.timestamp grows
NextBlock ==
    /\ now < MaxTime
    /\ now' = now + 1
    /\ UNCHANGED <<paused, roles, storage, last, pauseSnap, inCall, gen>>

Next ==
    \/ \E sender \in Addr, sub \in Submissions : VerifyProof(sender, sub[1], sub[2])
    \/ \E sender \in Addr, p \in Proofs : VerifyProofSimple(sender, p)
    \/ \E sender \in Addr : Pause(sender)
    \/ \E sender \in Addr : Unpause(sender)
    \/ \E sender \in Addr, role \in Roles, account \in Grantees : GrantRole(sender, role, account)
    \/ \E sender \in Addr, role \in Roles, account \in Grantees : RevokeRole(sender, role, account)
    \/ \E sender \in Addr, role \in Roles, confirmation \in Grantees : RenounceRole(sender, role, confirmation)
    \/ NextBlock

Spec == Init /\ [][Next]_vars

(***************************************************************************)
(* A submission in the steps of its execution: the call of the Proof       *)
(* Verifier is an external call, during which the callee may call back     *)
(***************************************************************************)
\* nonReentrant without the check of _status
NonReentrantBefore_NoGuard(st) == "ok"

\* ReentrancyGuard._nonReentrantBefore: revert if _status is ENTERED
NonReentrantBefore(st) ==
    IF st = ENTERED THEN "ReentrancyGuardReentrantCall" ELSE "ok"

\* the outcome of a submission that starts while _status is st: the modifiers
\* whenNotPaused and nonReentrant, then the body
SubmissionResult(st, op, sender, p, sig) ==
    IF paused THEN "EnforcedPause"
    ELSE IF NonReentrantBefore(st) # "ok" THEN NonReentrantBefore(st)
    ELSE IF op = "verifyProof" THEN VerifyProofResult(paused, usedProofHashes, roles, p, sig)
    ELSE VerifyProofSimpleResult(paused, usedProofHashes, roles, sender, p)

\* the address a submission is recorded under
BoundSigner(op, sender, p, sig) ==
    IF op = "verifyProof" THEN RecoveredSigner(p, sig) ELSE sender

\* a transaction calls verifyProof or verifyProofSimple: it reverts at one of
\* the checks that precede the Proof Verifier, or sets _status to ENTERED and
\* calls zkVerifier.verifyProof
BeginSubmission(op, sender, p, sig) ==
    LET res == SubmissionResult(status, op, sender, p, sig)
    IN /\ frame = NoFrame
       /\ IF res \in {"ok", "InvalidProof"}
          THEN /\ status' = ENTERED
               /\ frame' = [op |-> op, sender |-> sender,
                            signer |-> BoundSigner(op, sender, p, sig), proof |-> p, sig |-> sig,
                            steps |-> IF op = "verifyProof" THEN StepsUpTo("hasRole")
                                      ELSE StepsUpTo("usedProofHashes")]
               /\ UNCHANGED last
          ELSE /\ last' = Call(op, sender, p, sig, res)
               /\ UNCHANGED <<status, frame>>
       /\ UNCHANGED <<paused, roles, storage, now, pauseSnap, gen>>

\* while the Proof Verifier runs, the callee calls a submission function of
\* the Gateway; the call is executed like any other, _status being ENTERED
NestedSubmission(op, sender, p, sig) ==
    LET res == SubmissionResult(status, op, sender, p, sig)
    IN /\ frame # NoFrame
       /\ StateUpdate(res, BoundSigner(op, sender, p, sig), sender, p)
       /\ last' = Call(op, sender, p, sig, res)
       /\ UNCHANGED <<paused, roles, now, pauseSnap, status, frame, gen>>

\* the Proof Verifier returns: InvalidProof reverts the transaction, otherwise
\* the state update follows and nonReentrant releases the guard
ReturnFromVerifier ==
    LET res == IF ZkVerifierVerifyProof(frame.proof) THEN "ok" ELSE "InvalidProof"
    IN /\ frame # NoFrame
       /\ StateUpdate(res, frame.signer, frame.sender, frame.proof)
       /\ last' = Call(frame.op, frame.sender, frame.proof, frame.sig, res)
       /\ status' = NOT_ENTERED
       /\ frame' = NoFrame
       /\ UNCHANGED <<paused, roles, now, pauseSnap, gen>>

ReentrantNext ==
    \/ \E sender \in Addr, sub \in Submissions :
          BeginSubmission("verifyProof", sender, sub[1], sub[2])
    \/ \E sender \in Addr, p \in Proofs :
          BeginSubmission("verifyProofSimple", sender, p, MalformedSig)
    \/ \E sender \in Addr, sub \in Submissions :
          NestedSubmission("verifyProof", sender, sub[1], sub[2])
    \/ \E sender \in Addr, p \in Proofs :
          NestedSubmission("verifyProofSimple", sender, p, MalformedSig)
    \/ ReturnFromVerifier
    \/ \E sender \in Addr : frame = NoFrame /\ Pause(sender)
    \/ \E sender \in Addr : frame = NoFrame /\ Unpause(sender)

ReentrantSpec == Init /\ [][ReentrantNext]_vars

(***************************************************************************)
(* The circuit and the proof service on their own                          *)
(***************************************************************************)
\* the witness calculation of the circuit, for every assignment of field
\* elements to the three input signals
CircuitInputs == [assets : Field, liabilities : Field, threshold : Field]
CircuitInit == Deployed /\ gen \in {[kind |-> "inputs", input |-> in] : in \in CircuitInputs}
CalculateWitness ==
    /\ gen.kind = "inputs"
    /\ gen' = [kind |-> "witness", input |-> gen.input,
               gte |-> GreaterEqThanOut(N_BITS, gen.input.assets, gen.input.liabilities),
               capital |-> FSub(gen.input.assets, gen.input.liabilities),
               satisfied |-> CapitalAdequacy(gen.input.assets, gen.input.liabilities,
                                             gen.input.threshold)]
    /\ UNCHANGED ledger
CircuitSpec == CircuitInit /\ [][CalculateWitness]_vars

\* the values a request carries: every N_BITS value, one below and one above
GenValues == (0 - 1)..Pow2(N_BITS)
\* the requests: every triple of such values, and for each field the requests
\* in which it holds a string that is no number (its value then plays no part)
Fields == {"assets", "liabilities", "threshold"}
ProverInputs ==
    [assets : GenValues, liabilities : GenValues, threshold : GenValues, nonNumeric : {{}}]
    \cup {in \in [assets : GenValues, liabilities : GenValues, threshold : GenValues,
                   nonNumeric : {{f} : f \in Fields}] :
             \A f \in in.nonNumeric : in[f] = 0}
ProverInit == Deployed /\ gen \in {[kind |-> "request", input |-> in] : in \in ProverInputs}
\* POST /api/prove calls generateRealProof(body, wasmBuffer, zkeyBuffer)
GenerateRealProof ==
    /\ gen.kind = "request"
    /\ \E r \in Rnd : gen' = GenerateRealProofResult(gen.input, r)
    /\ UNCHANGED ledger
ProverSpec == ProverInit /\ [][GenerateRealProof]_vars

\* the commitment of a proof and of the same proof with sub-elements
\* reordered.  A proof is laid out as its nine words: a[0], a[1], b[0][0],
\* b[0][1], b[1][0], b[1][1], c[0], c[1], publicSignals[0].
CommitWords == {1, 2}
Positions == 1..9
WordLayouts == [Positions -> CommitWords]
\* the exchange of two positions
Swap(i, j) == [k \in Positions |-> IF k = i THEN j ELSE IF k = j THEN i ELSE k]
\* the exchange of the rows, and of the columns, of b
SwapRowsOfB == [k \in Positions |-> IF k \in {3, 4} THEN k + 2 ELSE IF k \in {5, 6} THEN k - 2 ELSE k]
SwapColumnsOfB == [k \in Positions |-> IF k \in {3, 5} THEN k + 1 ELSE IF k \in {4, 6} THEN k - 1 ELSE k]
Reorderings ==
    {Swap(pr[1], pr[2]) : pr \in {q \in Positions \X Positions : q[1] < q[2]}}
    \cup {SwapRowsOfB, SwapColumnsOfB}
Reordered(words, perm) == [k \in Positions |-> words[perm[k]]]
\* the commitment the proof service computes for a layout
CommitmentOfWords(w) ==
    Commitment(<<w[1], w[2]>>, <<<<w[3], w[4]>>, <<w[5], w[6]>>>>, <<w[7], w[8]>>, w[9])

CommitInit ==
    Deployed /\ gen \in {[kind |-> "proofs", words |-> w, perm |-> r] :
                           w \in WordLayouts, r \in Reorderings}
ComputeCommitments ==
    /\ gen.kind = "proofs"
    /\ gen' = [kind |-> "commitments", words |-> gen.words, perm |-> gen.perm,
               first |-> CommitmentOfWords(gen.words),
               second |-> CommitmentOfWords(Reordered(gen.words, gen.perm))]
    /\ UNCHANGED ledger
CommitSpec == CommitInit /\ [][ComputeCommitments]_vars

\* End to end: a request is served by the proof service and the proof it
\* returns is submitted to the Gateway, signed by either key and sent by
\* either address, while the other callers of the Gateway go on
HasProof == gen.kind = "result" /\ gen.error = ""
EndToEndNext ==
    \/ GenerateRealProof
    \/ \E sender \in Addr, k \in Addr :
          /\ HasProof
          /\ VerifyProof(sender, SubmittedProof(gen), EthSig(k, SubmittedProof(gen)))
    \/ \E sender \in Addr : HasProof /\ VerifyProofSimple(sender, SubmittedProof(gen))
    \/ \E sender \in Addr : Pause(sender)
    \/ \E sender \in Addr : Unpause(sender)
    \/ \E sender \in Addr, account \in Grantees : GrantRole(sender, SIGNER_ROLE, account)
    \/ \E sender \in Addr, account \in Grantees : RevokeRole(sender, SIGNER_ROLE, account)
EndToEndSpec == ProverInit /\ [][EndToEndNext]_vars

(***************************************************************************)
(* The client hook useProofX: generateAndSubmitProof, one step per await   *)
(***************************************************************************)
\* result === null, error === null
NoResult == [set |-> FALSE, commitment |-> ZeroHash, verified |-> FALSE]
NoError == "null"
\* the bodies POST /prove answers with: success with a commitment, success
\* without one, failure with and without an error text
ProverCommitments == {ProofHash(ProofA), ProofHash(ProofB)}
ProverData ==
    {[success |-> TRUE, commitment |-> c, error |-> ""] : c \in ProverCommitments}
    \cup {[success |-> TRUE, commitment |-> ZeroHash, error |-> ""],
          [success |-> FALSE, commitment |-> ZeroHash, error |-> "Capital adequacy check failed"],
          [success |-> FALSE, commitment |-> ZeroHash, error |-> ""]}
\* what the awaited calls throw: Error objects with a code and a message, and
\* a value that is no Error
NetworkErrors == {[isError |-> TRUE, code |-> "", message |-> "Failed to fetch"]}
ParseErrors == {[isError |-> TRUE, code |-> "", message |-> "Unexpected token in JSON"]}
RejectionCodes == {"ACTION_REJECTED", "4001"}
TxErrors ==
    {[isError |-> TRUE, code |-> "ACTION_REJECTED", message |-> "user rejected action"],
     [isError |-> TRUE, code |-> "4001", message |-> "User denied transaction signature"],
     [isError |-> TRUE, code |-> "CALL_EXCEPTION", message |-> "execution reverted"],
     [isError |-> FALSE, code |-> "", message |-> ""]}
\* what the receipt's logs parse to: no ProofVerified event, or one with
\* verified true or false
Receipts == {"none", "verified", "unverified"}

\* the hook between invocations, as useState initialises it, the wallet not
\* connected; requests, txs, receipt, caught and cause observe the invocation
ClientStart ==
    [kind |-> "client", pc |-> "ready", invocation |-> 0,
     status |-> "idle", result |-> NoResult, error |-> NoError,
     isConnected |-> FALSE, ready |-> FALSE, commitment |-> ZeroHash,
     requests |-> 0, txs |-> 0, receipt |-> "none", caught |-> FALSE, cause |-> "none"]
ClientInit == Deployed /\ gen = ClientStart

\* reset(): setStatus("idle"); setResult(null); setError(null)
Reset(c) == [c EXCEPT !.status = "idle", !.result = NoResult, !.error = NoError]

\* err instanceof Error ? err.message : "Unknown error"
ErrorMessage(err) == IF err.isError THEN err.message ELSE "Unknown error"

\* a handler that calls the prover again (once) in place of giving up
Catch_Retry(c, message) ==
    IF c.requests < 2
    THEN [c EXCEPT !.status = "generating", !.requests = @ + 1, !.pc = "fetch"]
    ELSE [c EXCEPT !.error = message, !.status = "failure", !.pc = "done", !.caught = TRUE]
\* catch (err) { setError(message); setStatus("failure"); }
Catch(c, message) ==
    [c EXCEPT !.error = message, !.status = "failure", !.pc = "done", !.caught = TRUE]

\* catch (txError): a user rejection is rethrown as a new Error, anything
\* else as it is
Rethrow(txError) ==
    IF txError.code \in RejectionCodes
    THEN [isError |-> TRUE, code |-> "", message |-> "Transaction rejected by user"]
    ELSE txError
TxFailure(txError) == IF txError.code \in RejectionCodes THEN "userRejection" ELSE "revert"

\* verified that counts a missing event as verified
Verified_DefaultTrue(log) == log # "unverified"
\* const verified = event?.args?.verified ?? false
Verified(log) == log = "verified"

\* generateAndSubmitProof(input) up to its first await
GenerateAndSubmitProof ==
    /\ gen.kind = "client"
    /\ gen.pc \in {"ready", "done"}
    /\ gen.invocation < MaxInvocations
    /\ LET c == [Reset(gen) EXCEPT !.invocation = @ + 1, !.commitment = ZeroHash,
                                   !.requests = 0, !.txs = 0, !.receipt = "none",
                                   !.caught = FALSE, !.cause = "none"]
       IN gen' = IF ~c.isConnected
                 THEN [c EXCEPT !.status = "connecting", !.pc = "connect"]
                 ELSE IF ~c.ready
                 THEN [Catch(c, "Wallet not fully initialized. Please ensure you are on Sepolia.")
                          EXCEPT !.cause = "notInitialized"]
                 ELSE [c EXCEPT !.status = "generating", !.requests = @ + 1, !.pc = "fetch"]
    /\ UNCHANGED ledger

\* await connect() returns, the wallet connected or not (connect catches its
\* own errors); contract is null when no contract address is configured
ConnectReturns ==
    /\ gen.kind = "client"
    /\ gen.pc = "connect"
    /\ \E connected \in BOOLEAN, hasContract \in BOOLEAN :
          gen' = [gen EXCEPT !.isConnected = connected, !.ready = connected /\ hasContract,
                             !.status = "idle", !.pc = "done", !.cause = "connect"]
    /\ UNCHANGED ledger

\* connect() called by the wallet button, or on mount when the wallet already
\* authorised the site
ConnectWallet ==
    /\ gen.kind = "client"
    /\ ~gen.isConnected
    /\ \E hasContract \in BOOLEAN :
          gen' = [gen EXCEPT !.isConnected = TRUE, !.ready = hasContract]
    /\ UNCHANGED ledger

\* disconnect(), on accountsChanged with no account
Disconnect ==
    /\ gen.kind = "client"
    /\ gen.isConnected
    /\ gen' = [gen EXCEPT !.isConnected = FALSE, !.ready = FALSE]
    /\ UNCHANGED ledger

\* await fetch(...) returns a response
FetchReturns ==
    /\ gen.kind = "client"
    /\ gen.pc = "fetch"
    /\ gen' = [gen EXCEPT !.pc = "json"]
    /\ UNCHANGED ledger

\* await fetch(...) throws
FetchThrows ==
    /\ gen.kind = "client"
    /\ gen.pc = "fetch"
    /\ \E e \in NetworkErrors :
          gen' = [Catch(gen, ErrorMessage(e)) EXCEPT !.cause = "proverFailure"]
    /\ UNCHANGED ledger

\* await proverResponse.json() returns; the commitment is checked and
\* contract.verifyProof(commitment) is called
JsonReturns ==
    /\ gen.kind = "client"
    /\ gen.pc = "json"
    /\ \E proverData \in ProverData :
          gen' = IF ~proverData.success \/ proverData.commitment = ZeroHash
                 THEN [Catch(gen, IF proverData.error # "" THEN proverData.error
                                  ELSE "Prover service failed")
                          EXCEPT !.cause = "proverFailure"]
                 ELSE [gen EXCEPT !.commitment = proverData.commitment,
                                  !.status = "signing", !.pc = "send"]
    /\ UNCHANGED ledger

\* await proverResponse.json() throws
JsonThrows ==
    /\ gen.kind = "client"
    /\ gen.pc = "json"
    /\ \E e \in ParseErrors :
          gen' = [Catch(gen, ErrorMessage(e)) EXCEPT !.cause = "proverFailure"]
    /\ UNCHANGED ledger

\* await contract.verifyProof(commitment) returns the sent transaction
VerifyProofTxReturns ==
    /\ gen.kind = "client"
    /\ gen.pc = "send"
    /\ gen' = [gen EXCEPT !.txs = @ + 1, !.status = "confirming", !.pc = "wait"]
    /\ UNCHANGED ledger

\* await contract.verifyProof(commitment) throws: the user rejected, or the
\* gas estimate reverted; no transaction was sent
VerifyProofTxThrows ==
    /\ gen.kind = "client"
    /\ gen.pc = "send"
    /\ \E txError \in TxErrors :
          gen' = [Catch(gen, ErrorMessage(Rethrow(txError))) EXCEPT !.cause = TxFailure(txError)]
    /\ UNCHANGED ledger

\* await tx.wait() returns the receipt: setResult, setStatus
WaitReturns ==
    /\ gen.kind = "client"
    /\ gen.pc = "wait"
    /\ \E log \in Receipts :
          gen' = [gen EXCEPT !.result = [set |-> TRUE, commitment |-> gen.commitment,
                                         verified |-> Verified(log)],
                             !.status = IF Verified(log) THEN "success" ELSE "failure",
                             !.pc = "done", !.receipt = log, !.cause = "receipt"]
    /\ UNCHANGED ledger

\* await tx.wait() throws: the transaction reverted
WaitThrows ==
    /\ gen.kind = "client"
    /\ gen.pc = "wait"
    /\ \E txError \in {e \in TxErrors : e.code \notin RejectionCodes} :
          gen' = [Catch(gen, ErrorMessage(Rethrow(txError))) EXCEPT !.cause = "revert"]
    /\ UNCHANGED ledger

\* the awaited calls of an invocation return or throw
AwaitSettles ==
    \/ ConnectReturns
    \/ FetchReturns
    \/ FetchThrows
    \/ JsonReturns
    \/ JsonThrows
    \/ VerifyProofTxReturns
    \/ VerifyProofTxThrows
    \/ WaitReturns
    \/ WaitThrows
ClientNext ==
    \/ GenerateAndSubmitProof
    \/ ConnectWallet
    \/ Disconnect
    \/ AwaitSettles
ClientSpec == ClientInit /\ [][ClientNext]_vars
\* every pending await settles
ClientFairSpec == ClientInit /\ [][ClientNext]_vars /\ WF_vars(AwaitSettles)

(***************************************************************************)
(* View functions                                                          *)
(***************************************************************************)
\* isVerified(_signer)
isVerified(signer) == verifications[signer].verified
\* getVerification(_signer)
getVerification(signer) ==
    <<verifications[signer].proofHash, verifications[signer].timestamp,
      verifications[signer].threshold, verifications[signer].verified>>

(***************************************************************************)
(* Vocabulary of the properties                                            *)
(***************************************************************************)
SubmissionOps == {"verifyProof", "verifyProofSimple"}
\* this step is a transaction calling op (a new block is the only step that
\* moves block.timestamp, and the only one that is not a transaction)
Called(op) == now' = now /\ last'.op = op
CalledSubmission == now' = now /\ last'.op \in SubmissionOps
\* this step is an acceptance: it marks a commitment used, writes a record,
\* increments the counter or emits an event
Accepts ==
    \/ usedProofHashes' # usedProofHashes
    \/ verifications' # verifications
    \/ totalVerifications' # totalVerifications
    \/ events' # events
ProofOfHash(h) == CHOOSE p \in Proofs : ProofHash(p) = h

TypeOK ==
    /\ paused \in BOOLEAN
    /\ usedProofHashes \subseteq {ProofHash(p) : p \in Proofs}
    /\ totalVerifications \in 0..MaxEvents
    /\ Len(events) <= MaxEvents
    /\ now \in 0..MaxTime

(***************************************************************************)
(* Properties                                                              *)
(***************************************************************************)

\* C1: at-most-once acceptance.  Whatever calls were made, by whomever and in
\* whatever order, no two accepted submissions (ProofVerified events) carry
\* the same commitment, and every accepted commitment is marked used.
C1_AtMostOnce ==
    \A i \in DOMAIN events :
        /\ events[i].proofHash \in usedProofHashes
        /\ \A j \in DOMAIN events : i # j => events[i].proofHash # events[j].proofHash

\* two commitments were accepted and a further call with an accepted
\* commitment has just been rejected
C1_Witness ==
    /\ Len(events) = 2
    /\ last.op \in SubmissionOps
    /\ last.result = "ProofAlreadyUsed"
    /\ ProofHash(last.proof) = events[1].proofHash

\* C2: every acceptance happens while the Gateway is Active, for a proof the
\* Proof Verifier accepts, and binds the record to an address that holds the
\* Signer role at the time of the call.
C2_AcceptanceRequires ==
    [][Accepts =>
         LET e == events'[Len(events')]
         IN /\ Len(events') = Len(events) + 1
            /\ ~paused
            /\ ZkVerifierVerifyProof(ProofOfHash(e.proofHash))
            /\ HasRole(roles, SIGNER_ROLE, e.signer)]_vars

\* the counter before the last transaction ran
TotalBefore(call) ==
    IF call.op \in SubmissionOps /\ call.result = "ok"
    THEN totalVerifications - 1 ELSE totalVerifications
\* a submission of proof p bound to the key that made sig was accepted before
AcceptedBefore(p, sig) ==
    \E i \in DOMAIN events :
        /\ events[i].proofHash = ProofHash(p)
        /\ events[i].signer = RecoveredSigner(p, sig)

\* C3 (as stated): when verifyProof is called twice with the identical
\* (proof, publicSignals, signature), the second call fails with
\* ProofAlreadyUsed and the counter grows by at most 1 over the two calls.
C3_ReplayAlwaysProofAlreadyUsed ==
    [][(Called("verifyProof") /\ last.op = "verifyProof"
          /\ last'.proof = last.proof /\ last'.sig = last.sig)
        => /\ last'.result = "ProofAlreadyUsed"
           /\ totalVerifications' <= TotalBefore(last) + 1]_vars

\* C3 (amended): once a submission (proof, publicSignals, signature) has been
\* accepted, every later verifyProof call with the identical arguments fails,
\* with ProofAlreadyUsed while the Gateway is Active and with the pause error
\* while it is Paused, and leaves the counter as it is: the counter grows by
\* exactly 1 over the two calls.
C3_ReplayIdempotence ==
    [][(Called("verifyProof") /\ AcceptedBefore(last'.proof, last'.sig))
        => /\ last'.result = (IF paused THEN "EnforcedPause" ELSE "ProofAlreadyUsed")
           /\ totalVerifications' = totalVerifications
           /\ totalVerifications >= 1]_vars

\* an accepted submission has been sent again and rejected as a replay
C3_Witness ==
    /\ last.op = "verifyProof"
    /\ last.result = "ProofAlreadyUsed"
    /\ AcceptedBefore(last.proof, last.sig)
    /\ totalVerifications = 1

\* C4: authorization independence.  For a proof the Proof Verifier accepts,
\* a verifyProof call whose signature recovers to an address without the
\* Signer role is never accepted, and with the Gateway Active and the
\* commitment unused the outcome is decided by the role alone:
\* UnauthorizedSigner without the role, acceptance with it.
C4_AuthorizationIndependence ==
    [][(Called("verifyProof") /\ ZkVerifierVerifyProof(last'.proof)
          /\ last'.sig.kind # "malformed")
        => LET signer == RecoveredSigner(last'.proof, last'.sig)
               isSigner == signer \in Addr /\ SIGNER_ROLE \in roles[signer]
               fresh == ~paused /\ ProofHash(last'.proof) \notin usedProofHashes
           IN /\ ~isSigner => last'.result # "ok"
              /\ (fresh /\ ~isSigner) => last'.result = "UnauthorizedSigner"
              /\ (fresh /\ isSigner) => last'.result = "ok"]_vars

\* ProofA signed by a key without the Signer role has just been rejected
\* while the same proof, still unused, would be accepted for the admin key
C4_Witness ==
    /\ last.op = "verifyProof"
    /\ last.proof = ProofA
    /\ last.sig = EthSig("inst", ProofA)
    /\ last.result = "UnauthorizedSigner"
    /\ SIGNER_ROLE \in roles["admin"]
    /\ VerifyProofResult(paused, usedProofHashes, roles, ProofA, EthSig("admin", ProofA)) = "ok"

\* C5: pause dominance.  While Paused every submission fails with the pause
\* error and changes nothing; a successful unpause leaves the Gateway Active
\* with the storage it had when it was paused, so every submission then has
\* the outcome it has in that storage without the pause.
C5_PauseDominance ==
    [][/\ (CalledSubmission /\ paused)
           => /\ last'.result = "EnforcedPause"
              /\ UNCHANGED <<storage, roles, paused>>
       /\ (Called("unpause") /\ last'.result = "ok")
           => /\ paused /\ ~paused'
              /\ pauseSnap.taken
              /\ usedProofHashes' = pauseSnap.usedProofHashes
              /\ verifications' = pauseSnap.verifications
              /\ totalVerifications' = pauseSnap.totalVerifications
              /\ events' = pauseSnap.events
              /\ \A sub \in Submissions :
                    VerifyProofResult(paused', usedProofHashes', roles', sub[1], sub[2])
                      = VerifyProofResult(FALSE, pauseSnap.usedProofHashes, roles', sub[1], sub[2])
              /\ \A a \in Addr, q \in Proofs :
                    VerifyProofSimpleResult(paused', usedProofHashes', roles', a, q)
                      = VerifyProofSimpleResult(FALSE, pauseSnap.usedProofHashes, roles', a, q)]_vars

\* a valid, correctly signed, unused proof has just been refused because the
\* Gateway is Paused, after an earlier acceptance
C5_Witness ==
    /\ paused
    /\ last.op = "verifyProof"
    /\ last.result = "EnforcedPause"
    /\ VerifyProofResult(FALSE, usedProofHashes, roles, last.proof, last.sig) = "ok"
    /\ Len(events) = 1

AllOps == SubmissionOps \cup {"pause", "unpause", "grantRole", "revokeRole", "renounceRole"}

\* C6 (as stated): while Paused every mutating call fails: submissions, role
\* management and pause management alike.
C6_EveryCallFailsWhenPaused ==
    [][(now' = now /\ paused /\ last'.op \in AllOps) => last'.result # "ok"]_vars

\* C6 (amended): while Paused every submission and every pause() fails and
\* changes nothing; role management is not guarded by the pause (an Admin's
\* grantRole / revokeRole still succeeds) and unpause() by a Pauser succeeds.
C6_PauseGuard ==
    [][(now' = now /\ paused)
        => /\ last'.op \in SubmissionOps \cup {"pause"}
               => last'.result # "ok" /\ UNCHANGED <<storage, roles, paused>>
           /\ last'.op \in {"grantRole", "revokeRole"}
               => (last'.result = "ok" <=> DEFAULT_ADMIN_ROLE \in roles[last'.sender])
           /\ last'.op = "unpause"
               => (last'.result = "ok" <=> PAUSER_ROLE \in roles[last'.sender])]_vars

\* a Pauser's pause() has just failed because the Gateway is already Paused
C6_Witness ==
    /\ paused
    /\ last.op = "pause"
    /\ PAUSER_ROLE \in roles[last.sender]
    /\ last.result = "EnforcedPause"

\* C7: fail-closed.  A verifyProof or verifyProofSimple call that fails, for
\* whatever reason, leaves the used-commitment set, every record, the
\* counter, the role table and the pause flag as they were and emits no event.
C7_FailClosed ==
    [][(CalledSubmission /\ last'.result # "ok")
        => /\ usedProofHashes' = usedProofHashes
           /\ verifications' = verifications
           /\ totalVerifications' = totalVerifications
           /\ events' = events
           /\ roles' = roles
           /\ paused' = paused]_vars

\* with one commitment accepted, a correctly signed submission of another
\* proof has just failed the Proof Verifier's check
C7_Witness ==
    /\ last.op \in SubmissionOps
    /\ last.result = "InvalidProof"
    /\ Len(events) = 1
    /\ ProofHash(last.proof) \notin usedProofHashes

\* C8: effect of a successful verifyProof.  The commitment becomes used, the
\* record of the recovered signer (not of the sender) becomes {commitment,
\* block timestamp, threshold, true}, the counter grows by exactly 1, exactly
\* one ProofVerified(signer, sender, commitment, threshold, true, timestamp)
\* is appended to the log, and no other record, role or the pause flag changes.
C8_SuccessEffect ==
    [][(Called("verifyProof") /\ last'.result = "ok")
        => LET p == last'.proof
               h == ProofHash(p)
               signer == RecoveredSigner(p, last'.sig)
           IN /\ h \notin usedProofHashes
              /\ usedProofHashes' = usedProofHashes \cup {h}
              /\ verifications'[signer] =
                    [proofHash |-> h, timestamp |-> now % Pow2(WordBits),
                     threshold |-> p.pubSignals[1] % Pow2(WordBits), verified |-> TRUE]
              /\ \A a \in Addr \ {signer} : verifications'[a] = verifications[a]
              /\ totalVerifications' = totalVerifications + 1
              /\ events' = Append(events,
                    [signer |-> signer, submitter |-> last'.sender, proofHash |-> h,
                     threshold |-> p.pubSignals[1], verified |-> TRUE, timestamp |-> now])
              /\ roles' = roles
              /\ paused' = paused]_vars

\* a proof signed by one address and sent by another has just been accepted
\* in a later block: the signer has the record, the sender has none
C8_Witness ==
    /\ last.op = "verifyProof"
    /\ last.result = "ok"
    /\ RecoveredSigner(last.proof, last.sig) # last.sender
    /\ verifications[RecoveredSigner(last.proof, last.sig)].proofHash = ProofHash(last.proof)
    /\ verifications[RecoveredSigner(last.proof, last.sig)].timestamp = 1
    /\ ~verifications[last.sender].verified

\* C9: the pause state starts Active; it changes only from Active to Paused
\* by a successful pause() and from Paused to Active by a successful
\* unpause(), each sent by an address holding the Pauser role at that moment;
\* pause() and unpause() from an address without the role fail and leave the
\* state as it is.
C9_PauseTransitions ==
    /\ ~paused
    /\ [][/\ paused' # paused
              => /\ now' = now
                 /\ last'.result = "ok"
                 /\ PAUSER_ROLE \in roles[last'.sender]
                 /\ last'.op = (IF paused THEN "unpause" ELSE "pause")
          /\ (now' = now /\ last'.op \in {"pause", "unpause"}
                /\ PAUSER_ROLE \notin roles[last'.sender])
              => /\ last'.result = "AccessControlUnauthorizedAccount"
                 /\ paused' = paused]_vars

\* the second address, granted the Pauser role, has just unpaused the Gateway
C9_Witness ==
    /\ last.op = "unpause"
    /\ last.sender = "inst"
    /\ last.result = "ok"
    /\ ~paused

RoleAdminOps == {"grantRole", "revokeRole"}

\* C10 (as stated): the role table changes only in calls sent by an address
\* that holds the Admin role; no call from an address without it, and no
\* submission or pause call, changes anybody's role set.
C10_OnlyAdminChangesRoles ==
    [][roles' # roles
        => /\ now' = now
           /\ DEFAULT_ADMIN_ROLE \in roles[last'.sender]
           /\ last'.op \notin SubmissionOps \cup {"pause", "unpause"}]_vars

\* C10 (amended): the role table changes only in a grantRole or revokeRole
\* call sent by an address that holds the Admin role, or in a renounceRole
\* call, by which any address gives up one of its own roles; submissions and
\* pause calls never change it.
C10_RoleChanges ==
    [][roles' # roles
        => /\ now' = now
           /\ last'.result = "ok"
           /\ \/ /\ last'.op \in RoleAdminOps
                 /\ DEFAULT_ADMIN_ROLE \in roles[last'.sender]
              \/ /\ last'.op = "renounceRole"
                 /\ roles'[last'.sender] \subseteq roles[last'.sender]
                 /\ \A a \in Addr \ {last'.sender} : roles'[a] = roles[a]]_vars

\* an address that holds a role but not the Admin role has just been refused
\* a grantRole or revokeRole
C10_Witness ==
    /\ last.op \in RoleAdminOps
    /\ last.result = "AccessControlUnauthorizedAccount"
    /\ roles[last.sender] # {}
    /\ DEFAULT_ADMIN_ROLE \notin roles[last.sender]

\* C11: authorization is evaluated at call time.  A verifyProof call is
\* accepted only if the address its signature recovers to holds the Signer
\* role in the role table of the moment of the call, whatever that address
\* held or had accepted before (so nothing signed by a revoked key is
\* accepted until the role is granted again); and every address that holds
\* the role at that moment is honoured, be it granted just before or one of
\* two keys that hold it during a rotation.
C11_CallTimeAuthorization ==
    [][Called("verifyProof")
        => LET signer == RecoveredSigner(last'.proof, last'.sig)
               isSigner == signer \in Addr /\ SIGNER_ROLE \in roles[signer]
               passesOtherChecks ==
                   /\ ~paused
                   /\ ProofHash(last'.proof) \notin usedProofHashes
                   /\ ZkVerifierVerifyProof(last'.proof)
           IN /\ ~isSigner => last'.result # "ok" /\ ~Accepts
              /\ (isSigner /\ passesOtherChecks) => last'.result = "ok"]_vars

\* a key that was accepted as Signer before (its event was submitted by the
\* other address) has lost the role, and a valid, unused proof it signed has
\* just been rejected while the admin key is still honoured
C11_Witness ==
    /\ last.op = "verifyProof"
    /\ last.result = "UnauthorizedSigner"
    /\ last.sig.kind = "eth" /\ last.sig.key = "inst"
    /\ ZkVerifierVerifyProof(last.proof)
    /\ SIGNER_ROLE \notin roles["inst"]
    /\ \E i \in DOMAIN events : events[i].signer = "inst" /\ events[i].submitter = "admin"
    /\ VerifyProofResult(paused, usedProofHashes, roles, last.proof, EthSig("admin", last.proof)) = "ok"

\* C12 (as stated): verifyProofSimple is only allowed for authorized signers;
\* a call from an address that does not hold the Signer role is never
\* accepted.
C12_SimpleOnlyForSigners ==
    [][(Called("verifyProofSimple") /\ SIGNER_ROLE \notin roles[last'.sender])
        => last'.result # "ok" /\ ~Accepts]_vars

\* the positions in the event log of the accepted submissions bound to s
EventsOf(s) == {i \in DOMAIN events : events[i].signer = s}
\* the most recent of them
LastEventOf(s) == events[CHOOSE i \in EventsOf(s) : \A j \in EventsOf(s) : j <= i]

\* C17: last-write-wins records.  In every reachable state getVerification(s)
\* returns, for every address s, the commitment, timestamp and threshold of
\* the most recent accepted submission bound to s, and zeros with
\* verified = false if there is none; the event log holds every accepted
\* submission in the order of acceptance: an acceptance appends one event for
\* the accepted proof and no step removes or rewrites an earlier event.
C17_LastWriteWins ==
    /\ [](\A s \in Addr :
            IF EventsOf(s) = {}
            THEN getVerification(s) = <<ZeroHash, 0, 0, FALSE>>
            ELSE getVerification(s) = <<LastEventOf(s).proofHash, LastEventOf(s).timestamp,
                                        LastEventOf(s).threshold, TRUE>>)
    /\ [][/\ Len(events') >= Len(events)
          /\ SubSeq(events', 1, Len(events)) = events
          /\ IF CalledSubmission /\ last'.result = "ok"
             THEN /\ Len(events') = Len(events) + 1
                  /\ events'[Len(events')].proofHash = ProofHash(last'.proof)
                  /\ events'[Len(events')].timestamp = now
             ELSE events' = events]_vars

\* two submissions bound to the same address were accepted in different
\* blocks; the record is that of the second and the log still holds both
C17_Witness ==
    /\ Len(events) = 2
    /\ events[1].signer = events[2].signer
    /\ events[1].proofHash # events[2].proofHash
    /\ events[1].timestamp < events[2].timestamp
    /\ getVerification(events[2].signer) =
         <<events[2].proofHash, events[2].timestamp, events[2].threshold, TRUE>>

\* C18: isVerified(s) is true exactly when at least one submission bound to
\* s has been accepted, and once true it stays true: no failed or replayed
\* submission, pause, unpause or role change makes it false again.
C18_VerifiedForever ==
    /\ [](\A s \in Addr : isVerified(s) <=> EventsOf(s) # {})
    /\ [][\A s \in Addr : isVerified(s) => verifications'[s].verified]_vars

\* the address was accepted as a Signer, has lost the role since, a replay of
\* its commitment has just been refused, and it is still reported verified
C18_Witness ==
    /\ isVerified("inst")
    /\ SIGNER_ROLE \notin roles["inst"]
    /\ \E i \in DOMAIN events : events[i].signer = "inst" /\ events[i].submitter = "admin"
    /\ last.op \in SubmissionOps
    /\ last.result = "ProofAlreadyUsed"
    /\ ProofHash(last.proof) = verifications["inst"].proofHash

\* the range of a sequence
Range(seq) == {seq[i] : i \in DOMAIN seq}

\* C19: check order in verifyProof.  For a commitment already marked used, a
\* verifyProof call made while the Gateway is Active fails with
\* ProofAlreadyUsed whatever its signature is (malformed, of a non-Signer, of
\* a Signer) and whatever the Proof Verifier would answer: the call stops at
\* the replay check, before the signature recovery, the role lookup and the
\* call of the Proof Verifier, and changes nothing.
C19_ReplayCheckFirst ==
    [][(Called("verifyProof") /\ ~paused /\ ProofHash(last'.proof) \in usedProofHashes)
        => /\ last'.result = "ProofAlreadyUsed"
           /\ ~Accepts
           /\ "usedProofHashes" \in Range(last'.steps)
           /\ Range(last'.steps) \cap {"ECDSA.recover", "hasRole", "zkVerifier.verifyProof",
                                       "stateUpdate"} = {}]_vars

\* a used commitment has just been submitted again to the Active Gateway with
\* a signature that does not recover to any address
C19_Witness ==
    /\ last.op = "verifyProof"
    /\ last.sig = MalformedSig
    /\ ProofHash(last.proof) \in usedProofHashes
    /\ ~paused
    /\ last.result = "ProofAlreadyUsed"
    /\ last.steps = StepsUpTo("usedProofHashes")

\* C20: atomicity and non-reentrancy.  The call of the Proof Verifier, the
\* only external call of a submission, is made after the replay check and
\* with the guard taken; while it is in progress every nested verifyProof or
\* verifyProofSimple call fails with the reentrancy error and changes
\* nothing, the storage shows no partly applied submission (the commitment
\* waiting is still unused, counter, used set and event log agree), and no
\* commitment is accepted twice.
C20_NonReentrant ==
    /\ [](/\ (frame = NoFrame) <=> (status = NOT_ENTERED)
          /\ frame # NoFrame
               => /\ "usedProofHashes" \in Range(frame.steps)
                  /\ "zkVerifier.verifyProof" \notin Range(frame.steps)
                  /\ ProofHash(frame.proof) \notin usedProofHashes
                  /\ ~paused
          /\ totalVerifications = Len(events)
          /\ usedProofHashes = {events[i].proofHash : i \in DOMAIN events}
          /\ \A i, j \in DOMAIN events : events[i].proofHash = events[j].proofHash => i = j)
    /\ [][(frame # NoFrame /\ frame' # NoFrame)
            => /\ last'.result = "ReentrancyGuardReentrantCall"
               /\ last'.op \in SubmissionOps
               /\ UNCHANGED <<storage, paused, roles, status>>]_vars

\* while a valid submission waits for the Proof Verifier, a nested submission
\* of the same proof has just been refused
C20_Witness ==
    /\ frame # NoFrame
    /\ ZkVerifierVerifyProof(frame.proof)
    /\ last.op \in SubmissionOps
    /\ last.proof = frame.proof
    /\ last.result = "ReentrancyGuardReentrantCall"
    /\ status = ENTERED

\* C14: the constraint system of CapitalAdequacy is satisfiable exactly when
\* the three values lie in [0, 2^N_BITS), assets >= liabilities and
\* assets - liabilities > threshold, strictly: capital equal to the
\* threshold (0, 0 included) has no witness, capital = threshold + 1 has one.
C14_CircuitSatisfiable ==
    gen.kind = "witness"
    => LET a == gen.input.assets
           l == gen.input.liabilities
           t == gen.input.threshold
       IN gen.satisfied <=> /\ {a, l, t} \subseteq 0..(Pow2(N_BITS) - 1)
                            /\ a >= l
                            /\ a - l > t

\* the witness calculation succeeded at the boundary capital = threshold + 1
\* with nonzero liabilities and threshold
C14_Witness ==
    /\ gen.kind = "witness"
    /\ gen.satisfied
    /\ gen.input.liabilities > 0
    /\ gen.input.threshold > 0
    /\ gen.input.assets - gen.input.liabilities = gen.input.threshold + 1

\* C15: for every triple with assets < liabilities or assets - liabilities
\* <= threshold, generateRealProof throws the capital-insufficiency error of
\* the violated condition before snarkjs.groth16.fullProve is invoked, and
\* returns no proof, public signals or commitment.
C15_InsufficientCapitalFailsEarly ==
    (gen.kind = "result" /\ gen.input.nonNumeric = {}
       /\ \/ gen.input.assets < gen.input.liabilities
          \/ gen.input.assets - gen.input.liabilities <= gen.input.threshold)
    => /\ gen.error = IF gen.input.assets < gen.input.liabilities
                      THEN "Assets must be >= Liabilities"
                      ELSE "Capital adequacy check failed"
       /\ ~gen.fullProveCalled
       /\ gen.proof = <<>>
       /\ gen.publicSignals = <<>>
       /\ gen.commitment = ZeroHash

\* a request whose capital equals its threshold has been refused
C15_Witness ==
    /\ gen.kind = "result"
    /\ gen.input.assets > gen.input.liabilities
    /\ gen.input.assets - gen.input.liabilities = gen.input.threshold
    /\ gen.error = "Capital adequacy check failed"
    /\ ~gen.fullProveCalled

\* C16 (as stated): any reordering of the sub-elements of a proof (entries of
\* a, entries of c, rows or columns of b, elements exchanged between a, b, c
\* and the signal) yields a different commitment.
C16_AnyReorderingDiffers ==
    gen.kind = "commitments" => gen.second # gen.first

\* C16 (amended): the commitment is a function of (a, b, c, signal) alone,
\* and a reordering of the sub-elements yields a different commitment
\* exactly when it changes the sequence of the nine encoded words; a
\* reordering that exchanges equal values leaves the commitment the same.
C16_ReorderingOfDistinctDiffers ==
    gen.kind = "commitments"
    => /\ gen.first = CommitmentOfWords(gen.words)
       /\ (gen.second = gen.first) <=> (Reordered(gen.words, gen.perm) = gen.words)

\* the two entries of a differ and their exchange has changed the commitment
C16_Witness ==
    /\ gen.kind = "commitments"
    /\ gen.perm = Swap(1, 2)
    /\ gen.words[1] # gen.words[2]
    /\ gen.second # gen.first

\* C13 (as stated): end to end.  For every (assets, liabilities, threshold)
\* in [0, 2^N_BITS) with assets >= liabilities and assets - liabilities >
\* threshold the proof service returns a proof, and that proof, signed by a
\* Signer and submitted to the Active Gateway, is accepted exactly once: the
\* first such submission is accepted and every later one rejected, whatever
\* other calls are interleaved.  In steps: such a submission is accepted if
\* and only if the commitment is still unused, and the commitment of the
\* proof becomes used by such a submission only.
C13_EndToEndExactlyOnce ==
    /\ []((gen.kind = "result" /\ gen.input.nonNumeric = {}
            /\ {gen.input.assets, gen.input.liabilities, gen.input.threshold}
                  \subseteq 0..(Pow2(N_BITS) - 1)
            /\ gen.input.assets >= gen.input.liabilities
            /\ gen.input.assets - gen.input.liabilities > gen.input.threshold)
           => /\ gen.error = ""
              /\ gen.commitment = ProofHash(SubmittedProof(gen))
              /\ ZkVerifierVerifyProof(SubmittedProof(gen)))
    /\ [][HasProof
          => LET signedBySigner ==
                     /\ Called("verifyProof")
                     /\ last'.proof = SubmittedProof(gen)
                     /\ HasRole(roles, SIGNER_ROLE, RecoveredSigner(last'.proof, last'.sig))
                     /\ ~paused
             IN /\ signedBySigner
                     => (last'.result = "ok" <=> gen.commitment \notin usedProofHashes)
                /\ (gen.commitment \notin usedProofHashes /\ gen.commitment \in usedProofHashes')
                     => signedBySigner]_vars

\* the N_BITS values
InRange(x) == x \in 0..(Pow2(N_BITS) - 1)

\* C21: underflow guard.  With the subtraction taken modulo the field prime,
\* the constraint system has no witness in which assets < liabilities: for
\* such in-range inputs the output of assetsGteLiabilities is 0, which the
\* constraint out === 1 refuses, so the wrapped-around capital (assets -
\* liabilities + p) never satisfies the compliance constraint.
C21_UnderflowGuard ==
    (gen.kind = "witness" /\ gen.input.assets < gen.input.liabilities)
    => /\ ~gen.satisfied
       /\ gen.capital = gen.input.assets + FieldPrime - gen.input.liabilities
       /\ (InRange(gen.input.assets) /\ InRange(gen.input.liabilities)) => gen.gte = 0

\* in-range inputs with assets < liabilities: the capital wrapped around to
\* a field element above the threshold, and the witness calculation failed
C21_Witness ==
    /\ gen.kind = "witness"
    /\ InRange(gen.input.assets) /\ InRange(gen.input.liabilities) /\ InRange(gen.input.threshold)
    /\ gen.input.assets < gen.input.liabilities
    /\ gen.capital > gen.input.threshold
    /\ gen.gte = 0
    /\ ~gen.satisfied

\* C22: range check.  Each of assets, liabilities and threshold is decomposed
\* into N_BITS bits with exact reconstruction: no witness assigns any of them
\* a field element >= 2^N_BITS (a negative number encoded as p - k
\* included), every in-range element has exactly one decomposition, and two
\* different field elements never share one.
C22_RangeCheck ==
    gen.kind = "witness"
    => /\ gen.satisfied => /\ InRange(gen.input.assets)
                           /\ InRange(gen.input.liabilities)
                           /\ InRange(gen.input.threshold)
       /\ \A x \in {gen.input.assets, gen.input.liabilities, gen.input.threshold} :
             /\ Num2Bits(N_BITS, x) <=> InRange(x)
             /\ Cardinality(Num2BitsOut(N_BITS, x)) <= 1
             /\ \A y \in Field \ {x} : Num2BitsOut(N_BITS, y) \cap Num2BitsOut(N_BITS, x) = {}

\* the threshold is the field encoding p - 1 of the number -1, the other two
\* inputs would pass every other constraint, and there is no witness
C22_Witness ==
    /\ gen.kind = "witness"
    /\ gen.input.threshold = FieldPrime - 1
    /\ InRange(gen.input.assets) /\ InRange(gen.input.liabilities)
    /\ gen.input.assets > gen.input.liabilities
    /\ ~gen.satisfied

\* C23 (as stated): input errors are caught before any proof attempt.  For
\* an assets, liabilities or threshold that is non-numeric or out of range
\* (negative or >= 2^N_BITS) generateRealProof fails before
\* snarkjs.groth16.fullProve is invoked, and no proof is produced.
C23_InputErrorsCaughtEarly ==
    (gen.kind = "result"
       /\ \/ gen.input.nonNumeric # {}
          \/ ~InRange(gen.input.assets)
          \/ ~InRange(gen.input.liabilities)
          \/ ~InRange(gen.input.threshold))
    => /\ gen.error # ""
       /\ ~gen.fullProveCalled
       /\ gen.proof = <<>>

\* C24: verifyProof recovers the signer over the signed-message hash of the
\* commitment, never over the raw commitment bytes.  A signature made by a
\* Signer over the raw commitment, or over the signed-message hash of another
\* commitment, authorizes nothing: the call is never accepted, and for a
\* valid unused proof on the Active Gateway it fails with UnauthorizedSigner.
C24_SignedMessageHashOnly ==
    [][(Called("verifyProof") /\ last'.sig.kind # "malformed"
          /\ HasRole(roles, SIGNER_ROLE, last'.sig.key)
          /\ \/ last'.sig.kind = "raw"
             \/ last'.sig.over # ProofHash(last'.proof))
        => /\ last'.result # "ok"
           /\ ~Accepts
           /\ RecoveredSigner(last'.proof, last'.sig) # last'.sig.key
           /\ (~paused /\ ProofHash(last'.proof) \notin usedProofHashes)
                => last'.result = "UnauthorizedSigner"]_vars

\* the admin Signer signed the raw commitment of ProofA: the submission has
\* just been refused, although the same key's signature over the
\* signed-message hash would be accepted
C24_Witness ==
    /\ last.op = "verifyProof"
    /\ last.sig = RawSig("admin", ProofA)
    /\ last.proof = ProofA
    /\ last.result = "UnauthorizedSigner"
    /\ HasRole(roles, SIGNER_ROLE, "admin")
    /\ VerifyProofResult(paused, usedProofHashes, roles, ProofA, EthSig("admin", ProofA)) = "ok"

\* C26: in every reachable state totalVerifications equals the number of
\* commitments marked used and the number of ProofVerified events emitted so
\* far; it never decreases and changes only by +1, on an accepted submission.
C26_CounterAgrees ==
    /\ [](/\ totalVerifications = Cardinality(usedProofHashes)
          /\ totalVerifications = Len(events))
    /\ [][\/ totalVerifications' = totalVerifications
          \/ /\ totalVerifications' = totalVerifications + 1
             /\ CalledSubmission
             /\ last'.result = "ok"]_vars

\* two submissions were accepted and a third call has just been refused: the
\* counter stands at two
C26_Witness ==
    /\ totalVerifications = 2
    /\ Cardinality(usedProofHashes) = 2
    /\ Len(events) = 2
    /\ last.op \in SubmissionOps
    /\ last.result # "ok"

C28_CommitmentAgrees ==
    (gen.kind = "result" /\ gen.error = "")
        => /\ gen.commitment = ProofHash(SubmittedProof(gen))
           /\ \A k \in Addr :
                LET sig == [kind |-> "eth", key |-> k, over |-> gen.commitment]
                IN /\ RecoveredSigner(SubmittedProof(gen), sig) = k
                   /\ \A p \in (Proofs \cup GeneratedProofs) \ {SubmittedProof(gen)} :
                        RecoveredSigner(p, sig) # k

\* a proof has been returned, with its b coordinates swapped and a
\* commitment
C28_Witness ==
    /\ gen.kind = "result"
    /\ gen.error = ""
    /\ gen.input.threshold = 1
    /\ gen.proof.b = <<<<14, 13>>, <<16, 15>>>>
    /\ gen.commitment # ZeroHash
    /\ SubmittedProof(gen) \in GeneratedProofs

ClientInFlight == gen.pc \in {"connect", "fetch", "json", "send", "wait"}
FailureCauses == {"proverFailure", "userRejection", "revert"}

\* C25: no auto-retry.  One invocation of generateAndSubmitProof sends at most
\* one request to the prover and at most one verifyProof transaction, and a
\* transaction only after its request; the step in which the prover fails,
\* the user rejects or the Gateway reverts ends the invocation in status
\* failure, and an invocation that has ended sends nothing more.
C25_NoAutoRetry ==
    /\ [](/\ gen.requests <= 1
          /\ gen.txs <= gen.requests)
    /\ [][/\ (gen'.cause \in FailureCauses /\ gen.cause = "none")
              => /\ gen'.pc = "done"
                 /\ gen'.status = "failure"
                 /\ gen'.requests = gen.requests
                 /\ gen'.txs = gen.txs
          /\ (gen.pc = "done" /\ gen'.invocation = gen.invocation)
              => /\ gen'.pc = "done"
                 /\ gen'.status = gen.status
                 /\ gen'.requests = gen.requests
                 /\ gen'.txs = gen.txs]_vars

\* the second invocation has ended in failure after the Gateway reverted its
\* one transaction
C25_Witness ==
    /\ gen.invocation = 2
    /\ gen.pc = "done"
    /\ gen.cause = "revert"
    /\ gen.status = "failure"
    /\ gen.requests = 1
    /\ gen.txs = 1

\* C30: client flow termination and soundness.  Every invocation whose
\* awaited calls return or throw ends, and it ends in status idle (the wallet
\* was not connected: it only connects and sends nothing), success or
\* failure; until it ends its status is connecting, generating, signing or
\* confirming.  Status success implies a confirmed transaction whose receipt
\* held a ProofVerified event with verified = true, and whenever an error was
\* caught the status is failure, the error message is set and there is no
\* result.
C30_ClientTerminates ==
    /\ [](/\ gen.pc = "done" => gen.status \in {"idle", "success", "failure"}
          /\ ClientInFlight => gen.status \in {"connecting", "generating", "signing", "confirming"}
          /\ (gen.pc = "done" /\ gen.status = "idle")
                => gen.cause = "connect" /\ gen.requests = 0 /\ gen.txs = 0
          /\ gen.status = "success"
                => /\ gen.txs = 1
                   /\ gen.receipt = "verified"
                   /\ gen.result.set /\ gen.result.verified
                   /\ gen.error = NoError
          /\ gen.caught
                => /\ gen.status = "failure"
                   /\ gen.error # NoError
                   /\ gen.result = NoResult)
    /\ (ClientInFlight ~> gen.pc = "done")

\* the second invocation has ended in success: its one transaction was
\* confirmed with a ProofVerified event, after a first invocation that only
\* connected the wallet
C30_Witness ==
    /\ gen.invocation = 2
    /\ gen.pc = "done"
    /\ gen.status = "success"
    /\ gen.cause = "receipt"
    /\ gen.txs = 1
    /\ gen.result.commitment = ProofHash(ProofB)
====
